---- MODULE Spec2Model ----
(***************************************************************************)
(* Model of forms_crawler.py: class WebCrawler.                            *)
(*                                                                         *)
(* Strings are sequences of tokens (a token is a character or a group of   *)
(* characters that the universe never splits), so that prefix tests,       *)
(* substring tests, slash collapsing and lower-casing are computed the     *)
(* way the code computes them on Python strings.                           *)
(***************************************************************************)
EXTENDS Integers, Sequences, FiniteSets, TLC

(***************************************************************************)
(* Bounds of the model.                                                    *)
(***************************************************************************)
\* batch_size ranges over 1..MaxBatchSize
MaxBatchSize == 2
\* max_pages ranges over 1..MaxPagesBound
MaxPagesBound == 5
\* timeout_minutes is MaxElapsed, and the clock (whole minutes since
\* start_time) stops advancing there
MaxElapsed == 1
\* the longest path (in tokens) of a URL handed to _normalize_url on its own
MaxPathLen == 3
\* the most meta tags of a document handed to _extract_meta_info on its own
MaxMetas == 2

(***************************************************************************)
(* String helpers (Python str operations on token sequences).              *)
(***************************************************************************)
Range(s) == {s[i] : i \in 1..Len(s)}

NoDup(s) == \A i, j \in 1..Len(s) : s[i] = s[j] => i = j

\* a for loop: "for x in s[k:]: acc = Op(acc, x)".  The accumulator is bound
\* through a one-element set so that it is computed once per iteration.
RECURSIVE ForEach(_, _, _, _)
ForEach(Op(_, _), acc, s, k) ==
    IF k > Len(s) THEN acc
    ELSE CHOOSE r \in {ForEach(Op, a, s, k + 1) : a \in {Op(acc, s[k])}} : TRUE

\* str.lower() of one token
LowerTok(t) ==
    CASE t = "SITE.TEST" -> "site.test"
      [] t = "Contact-Us" -> "contact-us"
      [] t = ".PDF" -> ".pdf"
      [] OTHER -> t

\* str.lower()
Lower(s) == [i \in 1..Len(s) |-> LowerTok(s[i])]

\* s.startswith(p)
StartsWith(s, p) == Len(p) <= Len(s) /\ SubSeq(s, 1, Len(p)) = p

\* p in s  (substring test)
Contains(p, s) ==
    \E t \in {s} : \E i \in 0..(Len(t) - Len(p)) : SubSeq(t, i + 1, i + Len(p)) = p

\* s.rstrip('/')
RECURSIVE RStripSlash(_)
RStripSlash(s) ==
    IF s # <<>> /\ s[Len(s)] = "/" THEN RStripSlash(SubSeq(s, 1, Len(s) - 1))
    ELSE s

\* re.sub(r'/+', '/', s)
RECURSIVE CollapseSlashes(_)
CollapseSlashes(s) ==
    IF Len(s) <= 1 THEN s
    ELSE IF s[1] = "/" /\ s[2] = "/" THEN CollapseSlashes(Tail(s))
    ELSE <<s[1]>> \o CollapseSlashes(Tail(s))

\* s.strip() on the tokens of a meta tag's content (" " is the blank token)
RECURSIVE LStripBlank(_)
LStripBlank(s) == IF s # <<>> /\ s[1] = " " THEN LStripBlank(Tail(s)) ELSE s

RECURSIVE RStripBlank(_)
RStripBlank(s) ==
    IF s # <<>> /\ s[Len(s)] = " " THEN RStripBlank(SubSeq(s, 1, Len(s) - 1))
    ELSE s

\* the content taken as written, blanks included (a faulty variant)
NoStrip(s) == s

\* str.strip()
Strip(s) == RStripBlank(LStripBlank(s))

(***************************************************************************)
(* URLs.  A parsed URL (the result of urlparse) is a record                *)
(* [scheme, netloc, path, query, fragment]; a normalized URL is a string.  *)
(***************************************************************************)
Url(netloc, path, query) ==
    [scheme |-> "http", netloc |-> netloc, path |-> path, query |-> query,
     fragment |-> <<>>]

\* WebCrawler._normalize_url
NormalizeUrl(u) ==
    LET clean_path == CollapseSlashes(RStripSlash(u.path))
    IN  <<u.scheme, ":", "/", "/">> \o Lower(u.netloc) \o clean_path

\* urlparse of a normalized URL string: the host ends at the first "/" after "://"
NetlocEnd(s) ==
    LET slashes == {i \in 5..Len(s) : s[i] = "/"}
    IN  IF slashes = {} THEN Len(s) + 1 ELSE CHOOSE i \in slashes : \A j \in slashes : i <= j

\* urlparse(s).path of a normalized URL string
PathOf(s) == SubSeq(s, NetlocEnd(s), Len(s))

\* the first index i >= from with s[i] in stops, Len(s) + 1 when there is none
FirstOf(s, from, stops) ==
    LET hits == {i \in from..Len(s) : s[i] \in stops}
    IN  IF hits = {} THEN Len(s) + 1 ELSE CHOOSE i \in hits : \A j \in hits : i <= j

\* the last index i with s[i] = x, 0 when there is none
LastOf(s, x) ==
    LET hits == {i \in 1..Len(s) : s[i] = x}
    IN  IF hits = {} THEN 0 ELSE CHOOSE i \in hits : \A j \in hits : j <= i

\* urllib.parse.urlparse of an absolute URL string "scheme://...": the
\* fragment starts at the first "#", the query at the first "?", the host ends
\* at the first "/", and the parameters of the last path segment (from its
\* first ";") are split off the path
UrlParse(s) ==
    LET nofrag == SubSeq(s, 1, FirstOf(s, 1, {"#"}) - 1)
        noquery == SubSeq(nofrag, 1, FirstOf(nofrag, 1, {"?"}) - 1)
        n == FirstOf(noquery, 5, {"/"})
        rawpath == SubSeq(noquery, n, Len(noquery))
        semi == FirstOf(rawpath, LastOf(rawpath, "/") + 1, {";"})
    IN  [scheme |-> s[1],
         netloc |-> SubSeq(noquery, 5, n - 1),
         path |-> SubSeq(rawpath, 1, semi - 1),
         params |-> SubSeq(rawpath, semi + 1, Len(rawpath)),
         query |-> SubSeq(nofrag, Len(noquery) + 2, Len(nofrag)),
         fragment |-> SubSeq(s, Len(nofrag) + 2, Len(s))]

\* the extension denylist of _should_crawl_url
SkipExtensions ==
    { <<".jpg">>, <<".jpeg">>, <<".png">>, <<".gif">>, <<".pdf">>, <<".zip">>,
      <<".css">>, <<".js">>, <<".ico">>, <<".xml">>, <<".txt">>, <<".doc">>,
      <<".docx">>, <<".xls">>, <<".xlsx">> }

\* the pattern denylist of _should_crawl_url
SkipPatterns ==
    { <<"/", "feed", "/">>, <<"/", "rss", "/">>, <<"/", "atom", "/">>,
      <<"/", "api", "/">>, <<"/", "print", "/">>, <<"/", "trackback", "/">>,
      <<"offset=">>, <<"limit=">>, <<"start=">> }

\* WebCrawler._should_crawl_url: both branches after the denylists return True
ShouldCrawlUrl(u) ==
    \E path \in {Lower(u.path)} :
        IF \E ext \in SkipExtensions : Contains(ext, path) THEN FALSE
        ELSE IF \E pattern \in SkipPatterns : Contains(pattern, path) THEN FALSE
        ELSE TRUE

(***************************************************************************)
(* The form catalog (self.form_configs), in insertion order.  A selector   *)
(* carries what select_one tests (kind, key) and what                      *)
(* selector.replace('form', '').strip('.#') leaves of it (stripped).       *)
(***************************************************************************)
IdSel(key) ==
    [kind |-> "id", key |-> key, stripped |-> key]

ClassSel(key, stripped) ==
    [kind |-> "class", key |-> key, stripped |-> stripped]

FormConfigs ==
    << [path |-> <<"/">>, name |-> "Get Free Recommendations",
        selectors |-> << IdSel("home-recommendations") >>],
       [path |-> <<"vendor-profile-page-software">>, name |-> "Software Profile Forms",
        selectors |-> << ClassSel("get-pricing-form", "get-pricing-"),
                         ClassSel("compare-pricing-form", "compare-pricing-"),
                         ClassSel("watch-demo-form", "watch-demo-"),
                         ClassSel("write-review-form", "write-review-"),
                         ClassSel("fit-check-form", "fit-check-") >>],
       [path |-> <<"vendor-profile-page-services">>, name |-> "Services Profile Forms",
        selectors |-> << ClassSel("get-quote-form", "get-quote-"),
                         ClassSel("download-portfolio-form", "download-portfolio-") >>],
       [path |-> <<"lead-generation-page">>, name |-> "Get Started Form",
        selectors |-> << ClassSel("vendor-signup-form", "vendor-signup-") >>],
       [path |-> <<"subcategory-page">>, name |-> "Subcategory Forms",
        selectors |-> << ClassSel("pricing-guide-form", "pricing-guide-"),
                         ClassSel("download-list-form", "download-list-") >>],
       [path |-> <<"vendor-comparison-page">>, name |-> "Comparison Form",
        selectors |-> << ClassSel("comparison-form", "comparison-") >>],
       [path |-> <<"whitepaper-article-page">>, name |-> "Whitepaper Form",
        selectors |-> << ClassSel("whitepaper-form", "whitepaper-") >>],
       [path |-> <<"register-now">>, name |-> "Webinar Registration",
        selectors |-> << ClassSel("webinar-form", "webinar-") >>],
       [path |-> <<"watch-now-webinar">>, name |-> "Watch Webinar",
        selectors |-> << ClassSel("watch-webinar-form", "watch-webinar-") >>],
       [path |-> <<"category-page">>, name |-> "Category Page Forms",
        selectors |-> << ClassSel("advice-form", "advice-"),
                         ClassSel("help-form", "help-") >>],
       [path |-> <<"get-free-advice">>, name |-> "Advice Forms",
        selectors |-> << ClassSel("deciding-help-form", "deciding-help-"),
                         ClassSel("software-search-form", "software-search-") >>],
       [path |-> <<"contact-us">>, name |-> "Contact Form",
        selectors |-> << ClassSel("contact-form", "contact-") >>] >>

\* self.form_configs.keys()
FormPaths == {FormConfigs[i].path : i \in 1..Len(FormConfigs)}

\* the test of line 281: any(form_path in normalized_url.lower() ...)
IsFormRelated(normalized_url) ==
    \E lowered \in {Lower(normalized_url)} :
        \E form_path \in FormPaths : Contains(form_path, lowered)

(***************************************************************************)
(* Parsed documents (BeautifulSoup).  An element is [tag, attrs, children] *)
(* where attrs is a record holding exactly the attributes present.         *)
(***************************************************************************)
\* Tag.get(key, default)
Get(attrs, key, default) == IF key \in DOMAIN attrs THEN attrs[key] ELSE default

\* Tag.has_attr(key)
HasAttr(attrs, key) == key \in DOMAIN attrs

\* whether a form element matches 'form#key' or 'form.key'
Matches(selector, element) ==
    /\ element.tag = "form"
    /\ IF selector.kind = "id"
       THEN Get(element.attrs, "id", "") = selector.key
       ELSE selector.key \in Get(element.attrs, "class", {})

\* soup.select_one(selector): the first matching element's index, 0 for None
SelectOne(doc, selector) ==
    LET hits == {i \in 1..Len(doc.forms) : Matches(selector, doc.forms[i])}
    IN  IF hits = {} THEN 0 ELSE CHOOSE i \in hits : \A j \in hits : i <= j

\* soup.find('meta', attrs={'name': name}): the first such tag's index, 0 for None
FindMeta(doc, name) ==
    LET hits == {i \in 1..Len(doc.metas) : Get(doc.metas[i], "name", "") = name}
    IN  IF hits = {} THEN 0 ELSE CHOOSE i \in hits : \A j \in hits : i <= j

\* WebCrawler._extract_meta_info
ExtractMetaInfo(doc, url) ==
    LET d == FindMeta(doc, "description")
        k == FindMeta(doc, "keywords")
        dcontent == IF d = 0 THEN <<>> ELSE Strip(Get(doc.metas[d], "content", <<>>))
        kcontent == IF k = 0 THEN <<>> ELSE Strip(Get(doc.metas[k], "content", <<>>))
        dissue == IF d = 0 THEN <<"Missing meta description">>
                  ELSE IF dcontent = <<>> THEN <<"Empty meta description">>
                  ELSE <<>>
        kissue == IF k = 0 THEN <<"Missing meta keywords">>
                  ELSE IF kcontent = <<>> THEN <<"Empty meta keywords">>
                  ELSE <<>>
    IN  [url |-> url,
         has_meta_keywords |-> (k # 0 /\ kcontent # <<>>),
         has_meta_description |-> (d # 0 /\ dcontent # <<>>),
         meta_keywords |-> kcontent,
         meta_description |-> dcontent,
         seo_issues |-> dissue \o kissue]

\* the field loop without the test of line 245 (a faulty variant)
AddFieldKeepHidden(fields, field) ==
    LET field_type == IF field.tag = "input"
                      THEN Get(field.attrs, "type", "text")
                      ELSE field.tag
    IN  IF field.tag \in {"input", "textarea", "select"}
        THEN Append(fields, [selector |-> <<field.tag, Get(field.attrs, "name", "")>>,
                             type |-> field_type,
                             required |-> HasAttr(field.attrs, "required")
                                          \/ HasAttr(field.attrs, "data-required")])
        ELSE fields

\* lines 240-251: one descendant of a matched form; hidden and submit are skipped
AddField(fields, field) ==
    LET field_type == IF field.tag = "input"
                      THEN Get(field.attrs, "type", "text")
                      ELSE field.tag
        field_name == Get(field.attrs, "name", "")
        required == HasAttr(field.attrs, "required")
                    \/ HasAttr(field.attrs, "data-required")
    IN  IF field.tag \in {"input", "textarea", "select"}
           /\ field_type \notin {"hidden", "submit"}
        THEN Append(fields, [selector |-> <<field.tag, field_name>>,
                             type |-> field_type,
                             required |-> required])
        ELSE fields

\* lines 238-251: the visible fields of a matched form, in document order
ExtractFields(children) == ForEach(AddField, <<>>, children, 1)

\* line 229: whether a catalog entry is tried on the page at url
RuleApplies(path, url) == Contains(path, url) \/ path = <<"/">>

\* lines 233-262: what one selector of a catalog entry adds to forms
AddFormOfSelector(forms, selector, config, doc, url, meta_info) ==
    LET i == SelectOne(doc, selector)
        form == doc.forms[i]
        fields == ExtractFields(form.children)
        id == Get(form.attrs, "id", "")
    IN  IF i = 0 THEN forms
        ELSE IF fields = <<>> THEN forms
        ELSE Append(forms, [url |-> url,
                            form_id |-> IF id # "" THEN id ELSE selector.stripped,
                            form_selector |-> selector,
                            form_type |-> config.name,
                            fields |-> fields,
                            meta_info |-> meta_info])

\* lines 229-262: what one catalog entry adds to forms
AddFormsOfConfig(forms, config, doc, url, meta_info) ==
    IF RuleApplies(config.path, url)
    THEN ForEach(LAMBDA acc, selector :
                     AddFormOfSelector(acc, selector, config, doc, url, meta_info),
                 forms, config.selectors, 1)
    ELSE forms

\* lines 226-262: every form_data record of a page, in catalog order
FormsOfPage(configs, doc, url, meta_info) ==
    ForEach(LAMBDA acc, config : AddFormsOfConfig(acc, config, doc, url, meta_info),
            <<>>, configs, 1)

\* a new record put at the front of the list (a faulty variant)
AppendFormAtFront(found, form_data) ==
    IF form_data \in Range(found) THEN found ELSE <<form_data>> \o found

\* lines 263-264: if form_data not in self.forms_found: append
AppendForm(found, form_data) ==
    IF form_data \in Range(found) THEN found ELSE Append(found, form_data)

\* lines 262-264 over the forms of one page
AppendForms(found, forms) == ForEach(AppendForm, found, forms, 1)

(***************************************************************************)
(* Link discovery (lines 267-289).                                         *)
(***************************************************************************)
\* line 271: hrefs that are skipped before urljoin
IsSkippedHref(href) == href.raw \in {"empty", "fragment", "mailto"}

\* the admission test without the all_urls membership test (a faulty variant)
AdmitsWithoutSeenTest(base, seen, full_url, normalized_url) ==
    /\ StartsWith(normalized_url, base)
    /\ ShouldCrawlUrl(full_url)

\* the admission test without the denylist test (a faulty variant)
AdmitsWithoutDenylist(base, seen, full_url, normalized_url) ==
    /\ StartsWith(normalized_url, base)
    /\ normalized_url \notin seen

\* lines 277-279: the admission test of a discovered link
Admits(base, seen, full_url, normalized_url) ==
    /\ StartsWith(normalized_url, base)
    /\ ShouldCrawlUrl(full_url)
    /\ normalized_url \notin seen

\* lines 281-284: where an admitted URL goes in the page's new_urls list
InsertNewUrl(new_urls, normalized_url) ==
    IF IsFormRelated(normalized_url) THEN <<normalized_url>> \o new_urls
    ELSE Append(new_urls, normalized_url)

\* lines 270-285: one anchor of the page
AddLink(acc, href, base) ==
    LET normalized_url == NormalizeUrl(href.full)
    IN  IF ~IsSkippedHref(href) /\ Admits(base, acc.all_urls, href.full, normalized_url)
        THEN [new_urls |-> InsertNewUrl(acc.new_urls, normalized_url),
              all_urls |-> acc.all_urls \cup {normalized_url}]
        ELSE acc

\* lines 268-289: [new_urls, all_urls] after the anchors of one page
ExtractNewUrls(anchors, base, seen) ==
    ForEach(LAMBDA acc, href : AddLink(acc, href, base),
            [new_urls |-> <<>>, all_urls |-> seen], anchors, 1)

(***************************************************************************)
(* The report (save_forms_to_csv).                                         *)
(***************************************************************************)
\* the [:200] of lines 323 and 325
TruncLen == 200

Truncate(s) == SubSeq(s, 1, IF Len(s) < TruncLen THEN Len(s) ELSE TruncLen)

CsvHeader ==
    << "Form ID", "URL", "Form Selector", "Success Message Selector", "Fields",
       "Form Type", "Has Meta Description", "Meta Description",
       "Has Meta Keywords", "Meta Keywords", "SEO Issues" >>

\* lines 310-313: one "selector|type|required-or-optional" item per field
FieldsStr(fields) ==
    [i \in 1..Len(fields) |->
        << fields[i].selector, fields[i].type,
           IF fields[i].required THEN "required" ELSE "optional" >>]

\* lines 314-327: the data row of one form
CsvRow(form) ==
    << form.form_id, form.url, form.form_selector, ".success-message",
       FieldsStr(form.fields), form.form_type,
       form.meta_info.has_meta_description,
       Truncate(form.meta_info.meta_description),
       form.meta_info.has_meta_keywords,
       Truncate(form.meta_info.meta_keywords),
       form.meta_info.seo_issues >>

\* save_forms_to_csv without the early return of lines 297-299 (a faulty variant)
SaveFormsToCsvAlways(found) ==
    <<CsvHeader>> \o [i \in 1..Len(found) |-> CsvRow(found[i])]

\* WebCrawler.save_forms_to_csv: the rows written, <<>> when nothing is written
SaveFormsToCsv(found) ==
    IF found = <<>> THEN <<>>
    ELSE <<CsvHeader>> \o [i \in 1..Len(found) |-> CsvRow(found[i])]

(***************************************************************************)
(* The site that is crawled: the inputs of the model.                      *)
(***************************************************************************)
\* the base_url argument of the constructor
BaseInput == Url(<<"SITE.TEST">>, <<"/">>, <<>>)

Href(netloc, path, query) == [raw |-> "url", full |-> Url(netloc, path, query)]

HrefRoot == Href(<<"site.test">>, <<"/">>, <<>>)
HrefA == Href(<<"site.test">>, <<"/", "a">>, <<>>)
\* another spelling of HrefA: host case, doubled and trailing slashes, a query
HrefA2 == Href(<<"SITE.TEST">>, <<"/", "/", "a", "/">>, <<"q=1">>)
HrefB == Href(<<"site.test">>, <<"/", "b">>, <<>>)
HrefC == Href(<<"site.test">>, <<"/", "c">>, <<>>)
HrefContact == Href(<<"site.test">>, <<"/", "contact-us">>, <<>>)
HrefPdf == Href(<<"site.test">>, <<"/", "b", ".PDF">>, <<>>)
HrefFeed == Href(<<"site.test">>, <<"/", "feed", "/", "a">>, <<>>)
HrefOff == Href(<<"other.test">>, <<"/", "a">>, <<>>)
HrefMailto == [raw |-> "mailto", full |-> Url(<<>>, <<"x@site.test">>, <<>>)]
HrefFragment == [raw |-> "fragment", full |-> Url(<<"site.test">>, <<"/">>, <<>>)]

Input(attrs) == [tag |-> "input", attrs |-> attrs, children |-> <<>>]

\* <form id="home-recommendations"> with one visible required field
HomeForm ==
    [tag |-> "form", attrs |-> [id |-> "home-recommendations"],
     children |-> << Input([type |-> "text", name |-> "email", required |-> ""]) >>]

\* <form class="contact-form"> with a hidden, a visible and a submit control
ContactForm ==
    [tag |-> "form", attrs |-> [class |-> {"contact-form"}],
     children |-> << Input([type |-> "hidden", name |-> "csrf"]),
                     [tag |-> "textarea", attrs |-> [name |-> "message"],
                      children |-> <<>>],
                     Input([type |-> "submit"]) >>]

\* <form class="contact-form"> whose controls are all hidden or submit
HiddenOnlyForm ==
    [tag |-> "form", attrs |-> [class |-> {"contact-form"}],
     children |-> << Input([type |-> "hidden", name |-> "csrf"]),
                     Input([type |-> "submit"]) >>]

Meta(name, content) == [name |-> name, content |-> content]

\* a response: status 0 stands for a network error or timeout (an exception)
Page(metas, forms, anchors) ==
    [status |-> 200, metas |-> metas, forms |-> forms, anchors |-> anchors]

\* a 404 response whose body nevertheless holds a form and links
DocNotFound ==
    [status |-> 404, metas |-> <<>>, forms |-> << HomeForm >>,
     anchors |-> << HrefA, HrefContact >>]

DocError == [status |-> 0, metas |-> <<>>, forms |-> <<>>, anchors |-> <<>>]

DocHome ==
    Page(<< Meta("description", <<"Find", " ", "software">>),
            Meta("keywords", <<" ">>) >>,
         << HomeForm >>,
         << HrefA, HrefB, HrefFragment >>)

DocHub ==
    Page(<<>>,
         << HomeForm, ContactForm >>,
         << HrefContact, HrefA2, HrefA, HrefRoot, HrefMailto, HrefB >>)

DocLeaf ==
    Page(<< Meta("keywords", <<"crm">>) >>,
         << HiddenOnlyForm, ContactForm >>,
         << HrefB, HrefPdf, HrefOff, HrefContact, HrefFeed, HrefC >>)

\* what a fetch of the base URL may return
Docs == {DocNotFound, DocError, DocHome, DocHub, DocLeaf}

\* what a fetch of another URL may return: the home page is served at the
\* base URL only
InnerDocs == Docs \ {DocHome}

(***************************************************************************)
(* State.                                                                  *)
(***************************************************************************)
VARIABLES
    base_url,         \* self.base_url
    batch_size,       \* self.batch_size
    max_pages,        \* self.max_pages
    timeout_minutes,  \* self.timeout_minutes
    visited,          \* self.visited
    queue,            \* self.queue
    forms_found,      \* self.forms_found
    all_urls,         \* self.all_urls
    elapsed,          \* whole minutes between self.start_time and now
    pc,               \* position of crawl(): "idle", "loop", "gather", "done"
    current_batch,    \* the URLs of the batch being gathered
    done,             \* indices of current_batch whose _process_url has returned
    results,          \* what each _process_url of the batch returned
    site,             \* the response of the root and of every URL requested so far
    fetched,          \* every URL handed to _process_url, in dispatch order
    completions,      \* the URLs whose _process_url returned, in completion order
    csv_file,         \* the rows written by save_forms_to_csv
    saves,            \* how many times save_forms_to_csv has run
    stop_state,       \* why the loop ended
    arg,              \* the argument of a helper that is called on its own
    ret               \* what that call returned, <<>> before it returns

vars ==
    << base_url, batch_size, max_pages, timeout_minutes, visited, queue,
       forms_found, all_urls, elapsed, pc, current_batch, done, results, site,
       fetched, completions, csv_file, saves, stop_state, arg, ret >>

config == << base_url, batch_size, max_pages, timeout_minutes >>

\* WebCrawler.__init__
Init ==
    /\ base_url = NormalizeUrl(BaseInput)
    /\ batch_size \in 1..MaxBatchSize
    /\ max_pages \in 1..MaxPagesBound
    /\ timeout_minutes = MaxElapsed
    /\ visited = {}
    /\ queue = <<>>
    /\ forms_found = <<>>
    /\ all_urls = {}
    /\ elapsed = 0
    /\ pc = "idle"
    /\ current_batch = <<>>
    /\ done = {}
    /\ results = <<>>
    /\ site \in [{NormalizeUrl(BaseInput)} -> Docs]
    /\ fetched = <<>>
    /\ completions = <<>>
    /\ csv_file = <<>>
    /\ saves = 0
    /\ stop_state = "Running"
    /\ arg = [fn |-> "crawl"]
    /\ ret = <<>>

\* crawl(), lines 346-352: seed the frontier
StartCrawl ==
    /\ pc = "idle"
    /\ pc' = "loop"
    /\ elapsed' = 0
    /\ queue' = <<base_url>>
    /\ visited' = visited \cup {base_url}
    /\ all_urls' = all_urls \cup {base_url}
    /\ UNCHANGED << arg, ret, config, forms_found, current_batch, done, results, site,
                    fetched, completions, csv_file, saves, stop_state >>

\* the clock advances while crawl() is suspended in gather (line 360)
Tick ==
    /\ pc = "gather"
    /\ elapsed < MaxElapsed
    /\ elapsed' = elapsed + 1
    /\ UNCHANGED << arg, ret, config, visited, queue, forms_found, all_urls, pc,
                    current_batch, done, results, site, fetched, completions,
                    csv_file, saves, stop_state >>

\* _should_stop_crawling without the page test of lines 333-335 (a faulty variant)
ShouldStopCrawlingWithoutPageTest ==
    IF elapsed >= timeout_minutes THEN TRUE ELSE FALSE

\* WebCrawler._should_stop_crawling
ShouldStopCrawling ==
    IF Cardinality(visited) >= max_pages THEN TRUE
    ELSE IF elapsed >= timeout_minutes THEN TRUE
    ELSE FALSE

\* the while condition without the queue test (a faulty variant)
LoopConditionWithoutQueueTest == ~ShouldStopCrawling

\* line 354: the condition of the while loop
LoopCondition == queue # <<>> /\ ~ShouldStopCrawling

\* a batch of one URL more than batch_size (a faulty variant)
BatchOfOneMore(q, n) == SubSeq(q, 1, IF Len(q) < n + 1 THEN Len(q) ELSE n + 1)

\* line 355: self.queue[:self.batch_size]
BatchOf(q, n) == SubSeq(q, 1, IF Len(q) < n THEN Len(q) ELSE n)

\* a queue that loses one URL more than the batch took (a faulty variant)
RestOfOneLess(q, n) == SubSeq(q, n + 2, Len(q))

\* line 356: self.queue[self.batch_size:]
RestOf(q, n) == SubSeq(q, n + 1, Len(q))

\* lines 354-360: take a batch and start one _process_url per URL
Dispatch ==
    /\ pc = "loop"
    /\ LoopCondition
    /\ LET batch == BatchOf(queue, batch_size)
           unknown == Range(batch) \ DOMAIN site
       IN  /\ current_batch' = batch
           /\ queue' = RestOf(queue, batch_size)
           /\ fetched' = fetched \o batch
           /\ results' = [i \in 1..Len(batch) |-> <<>>]
           /\ \E answers \in [unknown -> InnerDocs] : site' = site @@ answers
    /\ done' = {}
    /\ pc' = "gather"
    /\ UNCHANGED << arg, ret, config, visited, forms_found, all_urls, elapsed,
                    completions, csv_file, saves, stop_state >>

\* a failed fetch that hands its own URL back for another try (a faulty variant)
FailedResultRetry(url) == <<url>>

\* lines 215-217 and 291-293: what a failed fetch returns
FailedResult(url) == <<>>

\* _process_url when the status is not 200 or the request raises
ProcessUrlFailed(i) ==
    /\ pc = "gather"
    /\ i \in (1..Len(current_batch)) \ done
    /\ site[current_batch[i]].status # 200
    /\ done' = done \cup {i}
    /\ completions' = Append(completions, current_batch[i])
    /\ results' = [results EXCEPT ![i] = FailedResult(current_batch[i])]
    /\ UNCHANGED << arg, ret, config, visited, queue, forms_found, all_urls, elapsed, pc,
                    current_batch, site, fetched, csv_file, saves, stop_state >>

\* _process_url on a 200 response: everything after the last await (line 219)
ProcessUrlOk(i) ==
    /\ pc = "gather"
    /\ i \in (1..Len(current_batch)) \ done
    /\ site[current_batch[i]].status = 200
    /\ done' = done \cup {i}
    /\ completions' = Append(completions, current_batch[i])
    /\ \E url \in {current_batch[i]} :
       \E doc \in {site[url]} :
       \E meta_info \in {ExtractMetaInfo(doc, url)} :
       \E forms \in {FormsOfPage(FormConfigs, doc, url, meta_info)} :
       \E links \in {ExtractNewUrls(doc.anchors, base_url, all_urls)} :
          /\ forms_found' = AppendForms(forms_found, forms)
          /\ all_urls' = links.all_urls
          /\ results' = [results EXCEPT ![i] = links.new_urls]
    /\ UNCHANGED << arg, ret, config, visited, queue, elapsed, pc, current_batch, site,
                    fetched, csv_file, saves, stop_state >>

\* lines 364-365: one iteration of the merge loop
MergeOne(acc, new_urls) ==
    [queue |-> acc.queue \o SelectSeq(new_urls, LAMBDA u : u \notin acc.visited),
     visited |-> acc.visited \cup {u \in Range(new_urls) : u \notin acc.visited}]

\* lines 363-365: the effect of the merge loop on [queue, visited]
MergeResults(res, q, seen) ==
    ForEach(MergeOne, [queue |-> q, visited |-> seen], res, 1)

\* lines 360-367: gather has returned, the results are merged in task order
Join ==
    /\ pc = "gather"
    /\ done = 1..Len(current_batch)
    /\ LET merged == MergeResults(results, queue, visited)
       IN  /\ queue' = merged.queue
           /\ visited' = merged.visited
    /\ pc' = "loop"
    /\ UNCHANGED << arg, ret, config, forms_found, all_urls, elapsed, current_batch, done,
                    results, site, fetched, completions, csv_file, saves,
                    stop_state >>

\* lines 369-370: after the loop the report is saved
Finalize(state) ==
    /\ pc' = "done"
    /\ stop_state' = state
    /\ csv_file' = SaveFormsToCsv(forms_found)
    /\ saves' = saves + 1
    /\ UNCHANGED << arg, ret, config, visited, queue, forms_found, all_urls, elapsed,
                    current_batch, done, results, site, fetched, completions >>

\* the loop ends because the queue is empty
ExitCompleted ==
    /\ pc = "loop"
    /\ ~LoopCondition
    /\ queue = <<>>
    /\ Finalize("Completed")

\* the loop ends because len(self.visited) >= self.max_pages
ExitPageLimitReached ==
    /\ pc = "loop"
    /\ ~LoopCondition
    /\ queue # <<>>
    /\ Cardinality(visited) >= max_pages
    /\ Finalize("PageLimitReached")

\* the loop ends because elapsed_minutes >= self.timeout_minutes
ExitTimedOut ==
    /\ pc = "loop"
    /\ ~LoopCondition
    /\ queue # <<>>
    /\ Cardinality(visited) < max_pages
    /\ Finalize("TimedOut")

Next ==
    \/ StartCrawl
    \/ Tick
    \/ Dispatch
    \/ \E i \in 1..MaxBatchSize : ProcessUrlFailed(i)
    \/ \E i \in 1..MaxBatchSize : ProcessUrlOk(i)
    \/ Join
    \/ ExitCompleted
    \/ ExitPageLimitReached
    \/ ExitTimedOut

Spec == Init /\ [][Next]_vars

\* a step of crawl() or of one of its _process_url tasks
Step ==
    \/ StartCrawl
    \/ Dispatch
    \/ \E i \in 1..MaxBatchSize : ProcessUrlFailed(i)
    \/ \E i \in 1..MaxBatchSize : ProcessUrlOk(i)
    \/ Join
    \/ ExitCompleted
    \/ ExitPageLimitReached
    \/ ExitTimedOut

\* The event loop runs a coroutine that is ready, and every request ends (with
\* a response, an error or the 30 s timeout of line 214): the crawl takes a
\* step whenever it can.  Nothing is assumed about the clock.
FairSpec == Spec /\ WF_vars(Step)

(***************************************************************************)
(* _normalize_url and _extract_meta_info called on their own: the inputs   *)
(* are drawn at the start and one call is made.                            *)
(***************************************************************************)
\* the sequences over alphabet of length at most n
RECURSIVE SeqsUpTo(_, _)
SeqsUpTo(alphabet, n) ==
    IF n = 0 THEN {<<>>}
    ELSE LET shorter == SeqsUpTo(alphabet, n - 1)
         IN  shorter \cup {Append(t, x) : t \in shorter, x \in alphabet}

\* the spelling of a URL: its host, path and whether it has a query and a fragment
Spellings ==
    [host : {"SITE.TEST", "site.test"},
     path : {t \in SeqsUpTo({"/", "a", ";"}, MaxPathLen) : t = <<>> \/ t[1] = "/"},
     query : BOOLEAN,
     fragment : BOOLEAN]

\* the URL string of a spelling
UrlText(sp) ==
    <<"http", ":", "/", "/", sp.host>> \o sp.path
        \o (IF sp.query THEN <<"?", "q=1">> ELSE <<>>)
        \o (IF sp.fragment THEN <<"#", "top">> ELSE <<>>)

\* the documents whose meta tags are examined
MetaTags ==
    {Meta(name, content) : name \in {"description", "keywords"},
                           content \in {<<>>, <<" ">>, <<"crm">>, <<" ", "crm", " ">>}}
        \cup {[name |-> "description"], [name |-> "keywords"], [name |-> "viewport"]}

MetaDocs == {Page(metas, <<>>, <<>>) : metas \in SeqsUpTo(MetaTags, MaxMetas)}

\* the spellings that differ from sp only by a trailing slash, a doubled
\* slash of the path, the letter case of the host, the query or the fragment
Variants(sp) ==
    {[sp EXCEPT !.host = IF @ = "site.test" THEN "SITE.TEST" ELSE "site.test"],
     [sp EXCEPT !.path = Append(@, "/")],
     [sp EXCEPT !.query = ~@],
     [sp EXCEPT !.fragment = ~@]}
        \cup {[sp EXCEPT !.path = SubSeq(@, 1, i) \o <<"/">> \o SubSeq(@, i + 1, Len(@))] :
                 i \in {j \in 1..Len(sp.path) : sp.path[j] = "/"}}

PureInit ==
    /\ base_url = NormalizeUrl(BaseInput)
    /\ batch_size = 1
    /\ max_pages = 1
    /\ timeout_minutes = MaxElapsed
    /\ visited = {}
    /\ queue = <<>>
    /\ forms_found = <<>>
    /\ all_urls = {}
    /\ elapsed = 0
    /\ pc = "idle"
    /\ current_batch = <<>>
    /\ done = {}
    /\ results = <<>>
    /\ site = [u \in {NormalizeUrl(BaseInput)} |-> DocError]
    /\ fetched = <<>>
    /\ completions = <<>>
    /\ csv_file = <<>>
    /\ saves = 0
    /\ stop_state = "Running"
    /\ \/ \E sp \in Spellings : \E other \in Variants(sp) :
             arg = [fn |-> "_normalize_url", url |-> UrlText(sp), other |-> UrlText(other)]
       \/ \E doc \in MetaDocs : arg = [fn |-> "_extract_meta_info", soup |-> doc]
    /\ ret = <<>>

\* _normalize_url on a URL string (line 78 parses it), on its own result and
\* on the other spelling
NormalizeUrlCall ==
    /\ arg.fn = "_normalize_url"
    /\ ret = <<>>
    /\ ret' = << [first |-> NormalizeUrl(UrlParse(arg.url)),
                  second |-> NormalizeUrl(UrlParse(NormalizeUrl(UrlParse(arg.url)))),
                  other |-> NormalizeUrl(UrlParse(arg.other))] >>
    /\ UNCHANGED << arg, config, visited, queue, forms_found, all_urls, elapsed, pc,
                    current_batch, done, results, site, fetched, completions,
                    csv_file, saves, stop_state >>

\* _extract_meta_info on a parsed document
ExtractMetaInfoCall ==
    /\ arg.fn = "_extract_meta_info"
    /\ ret = <<>>
    /\ ret' = << ExtractMetaInfo(arg.soup, base_url) >>
    /\ UNCHANGED << arg, config, visited, queue, forms_found, all_urls, elapsed, pc,
                    current_batch, done, results, site, fetched, completions,
                    csv_file, saves, stop_state >>

PureNext ==
    \/ NormalizeUrlCall
    \/ ExtractMetaInfoCall

PureSpec == PureInit /\ [][PureNext]_vars

(***************************************************************************)
(* Helpers of the properties.                                              *)
(***************************************************************************)
\* the first position of x in s, 0 when x is not in s
Pos(s, x) ==
    LET hits == {i \in 1..Len(s) : s[i] = x}
    IN  IF hits = {} THEN 0 ELSE CHOOSE i \in hits : \A j \in hits : i <= j

\* how many times x occurs in s
Count(s, x) == Cardinality({i \in 1..Len(s) : s[i] = x})

IsPrefix(s, t) == Len(s) <= Len(t) /\ SubSeq(t, 1, Len(s)) = s

\* the URLs whose fetch has returned with a 200 response
FetchedOk == {u \in Range(completions) : site[u].status = 200}

\* the URLs whose fetch has failed
FetchedFailed == {u \in Range(completions) : site[u].status # 200}

\* the hrefs of a page that line 271 does not skip
LinksOf(u) == {h \in Range(site[u].anchors) : ~IsSkippedHref(h)}

\* a path with a denylisted extension or pattern
Denylisted(path) ==
    \E lower \in {Lower(path)} :
        \E p \in SkipExtensions \cup SkipPatterns : Contains(p, lower)

\* a priority URL in the words of the spec: its path contains a pathFragment
\* of the catalog (the root sentinel "/" aside)
IsPriorityUrl(u) ==
    \E fragment \in FormPaths \ {<<"/">>} : Contains(fragment, PathOf(u))

\* the admissible links of the root page differ from the root itself
RootLinksElsewhere ==
    /\ site[base_url].status = 200
    /\ \E h \in LinksOf(base_url) :
          /\ NormalizeUrl(h.full) # base_url
          /\ StartsWith(NormalizeUrl(h.full), base_url)
          /\ ShouldCrawlUrl(h.full)

(***************************************************************************)
(* C1.  Frontier dedup: every normalized URL is placed in the queue at     *)
(* most once.  The queue is only appended to at the back and taken from at *)
(* the front, so fetched \o queue is the sequence of everything that was   *)
(* ever enqueued, and it must hold no URL twice.                           *)
(***************************************************************************)
C1_FrontierDedup == NoDup(fetched \o queue)

\* the two pages of one batch both link /contact-us, which no earlier page
\* linked, one of them also links /a in two spellings and the base URL, and
\* after the join /contact-us waits in the queue
C1_Witness ==
    /\ pc = "loop"
    /\ site[base_url] = DocHome
    /\ Len(current_batch) = 2
    /\ site[current_batch[1]] = DocHub
    /\ site[current_batch[2]] = DocLeaf
    /\ NormalizeUrl(HrefContact.full) \in Range(queue)

(***************************************************************************)
(* C2.  Stop condition precedence: with max_pages = 1 and a root page that *)
(* links to another admissible page, the crawl fetches the root, then ends *)
(* in PageLimitReached with a non-empty queue and |visited| = 1.           *)
(***************************************************************************)
C2_StopAfterRootFetched ==
    (pc = "done" /\ max_pages = 1 /\ RootLinksElsewhere) =>
        /\ base_url \in Range(fetched)
        /\ stop_state = "PageLimitReached"
        /\ queue # <<>>
        /\ Cardinality(visited) = 1

(***************************************************************************)
(* C3.  visited tracks the pages actually fetched: a URL is in visited     *)
(* only if it was dispatched for fetching (the base URL aside), and a URL  *)
(* that waits in the queue is in all_urls but not in visited.              *)
(***************************************************************************)
C3_VisitedIsFetched ==
    /\ visited \subseteq Range(fetched) \cup {base_url}
    /\ \A u \in Range(queue) \ {base_url} : u \in all_urls /\ u \notin visited

(***************************************************************************)
(* C4.  Priority insertion: at a merge, a newly admitted priority URL ends *)
(* up ahead of every URL that was already waiting in the queue, and a      *)
(* newly admitted non-priority URL behind every such URL.                  *)
(***************************************************************************)
C4_PriorityInsertion ==
    [][ (pc = "gather" /\ pc' = "loop") =>
          \A u \in Range(queue') \ Range(queue) : \A w \in Range(queue) :
              IF IsPriorityUrl(u)
              THEN Pos(queue', u) < Pos(queue', w)
              ELSE Pos(queue', u) > Pos(queue', w) ]_vars

(***************************************************************************)
(* C5.  Report order is reproducible: the records of the report appear in  *)
(* the dispatch order of their URLs, whatever the completion order of the  *)
(* fetches of a batch.                                                     *)
(***************************************************************************)
C5_ReportInDispatchOrder ==
    \A i, j \in 1..Len(forms_found) :
        i < j => Pos(fetched, forms_found[i].url) <= Pos(fetched, forms_found[j].url)

(***************************************************************************)
(* C6.  Root rule scope: a record of the root rule ("/") only comes from   *)
(* the crawl root, and a record of any other catalog entry only from a     *)
(* page whose path contains the entry's pathFragment.                      *)
(***************************************************************************)
C6_RootRuleOnlyAtRoot ==
    \A i \in 1..Len(forms_found) : \A k \in 1..Len(FormConfigs) :
        forms_found[i].form_type = FormConfigs[k].name =>
            IF FormConfigs[k].path = <<"/">>
            THEN forms_found[i].url = base_url
            ELSE Contains(FormConfigs[k].path, PathOf(forms_found[i].url))

(***************************************************************************)
(* C7.  Fetch failure is local and permanent: a URL whose fetch failed     *)
(* returned no links and gave no record, every URL of all_urls other than  *)
(* the base was linked by a successfully fetched page, and the failed URL  *)
(* stays in all_urls, is not in the queue and was dispatched exactly once. *)
(***************************************************************************)
C7_FetchFailureIsLocal ==
    /\ \A u \in FetchedFailed :
          /\ \A i \in 1..Len(forms_found) : forms_found[i].url # u
          /\ u \in all_urls
          /\ u \notin Range(queue)
          /\ Count(fetched, u) = 1
          /\ \A i \in done : current_batch[i] = u => results[i] = <<>>
    /\ \A u \in all_urls \ {base_url} :
          \E page \in FetchedOk : \E h \in LinksOf(page) : NormalizeUrl(h.full) = u

\* a fetch answered by a 404 whose body holds a form and links failed in a
\* batch of two, the other fetch of that batch gave new links, and a page
\* fetched in a later batch gave a record
C7_Witness ==
    /\ pc = "loop"
    /\ \E u \in FetchedFailed : \E v \in FetchedOk : \E w \in FetchedOk :
          /\ site[u] = DocNotFound
          /\ {Pos(fetched, u), Pos(fetched, v)} = {2, 3}
          /\ batch_size = 2
          /\ Pos(fetched, w) > 3
          /\ \E i \in 1..Len(forms_found) : forms_found[i].url = w

(***************************************************************************)
(* C8.  Termination and finalization: a started crawl eventually leaves    *)
(* the loop through one of the three stop conditions, the report is        *)
(* rendered exactly once then, and never while the loop is running.        *)
(***************************************************************************)
C8_TerminatesAndRendersOnce ==
    /\ (pc = "loop") ~> (pc = "done")
    /\ [](saves = IF pc = "done" THEN 1 ELSE 0)
    /\ [](pc = "done" <=> stop_state \in {"Completed", "TimedOut", "PageLimitReached"})
    /\ [](pc = "done" => csv_file = SaveFormsToCsv(forms_found))

\* the crawl ended on the time budget after at least two batches, with a
\* report written
C8_Witness ==
    /\ pc = "done"
    /\ stop_state = "TimedOut"
    /\ Len(fetched) >= 2
    /\ saves = 1
    /\ csv_file # <<>>

(***************************************************************************)
(* C9.  Admission filter: every URL of all_urls other than the base is the *)
(* normalized form of a link of a fetched page that passes the denylists;  *)
(* a URL returned by a fetch of the running batch was outside all_urls     *)
(* when admitted, so it is returned once and was never enqueued before;    *)
(* all members of queue and all_urls start with the normalized base URL.   *)
(***************************************************************************)
C9_AdmissionFilter ==
    /\ \A u \in all_urls \cup Range(queue) : StartsWith(u, base_url)
    /\ LET passing == {h \in UNION {LinksOf(page) : page \in FetchedOk} :
                          ~Denylisted(h.full.path)}
           linked == {NormalizeUrl(h.full) : h \in passing}
       IN  \A u \in all_urls \ {base_url} :
              u \in linked /\ ~Denylisted(PathOf(u))
    /\ pc = "gather" =>
          \A i \in done :
              /\ NoDup(results[i])
              /\ Range(results[i]) \subseteq all_urls
              /\ Range(results[i]) \cap (Range(fetched) \cup Range(queue)) = {}
              /\ \A j \in done \ {i} : Range(results[i]) \cap Range(results[j]) = {}

\* a page that links a denylisted extension, a denylisted pattern and another
\* host was fetched and its admissible links were admitted
C9_Witness ==
    /\ pc = "gather"
    /\ \E i \in done :
          /\ site[current_batch[i]] = DocLeaf
          /\ results[i] # <<>>
    /\ NormalizeUrl(HrefPdf.full) \notin all_urls
    /\ NormalizeUrl(HrefOff.full) \notin all_urls

(***************************************************************************)
(* C10.  Report sink dedup and append-only: forms_found never holds two    *)
(* equal records, and every step leaves the old list as a prefix of the    *)
(* new one.                                                                *)
(***************************************************************************)
C10_SinkDedupAppendOnly ==
    /\ [](NoDup(forms_found))
    /\ [][IsPrefix(forms_found, forms_found')]_vars

\* records of three pages have been accumulated, two of them by one page
C10_Witness ==
    /\ Len(forms_found) >= 4
    /\ \E i, j \in 1..Len(forms_found) :
          i # j /\ forms_found[i].url = forms_found[j].url

\* the type a control of a form shows, as line 240 reads it
TypeOf(field) ==
    IF field.tag = "input" THEN Get(field.attrs, "type", "text") ELSE field.tag

\* the controls of a form element that are neither hidden nor submit
VisibleControls(form) ==
    SelectSeq(form.children,
              LAMBDA c : c.tag \in {"input", "textarea", "select"}
                         /\ TypeOf(c) \notin {"hidden", "submit"})

(***************************************************************************)
(* C11.  Field exclusion: every record of forms_found has a non-empty      *)
(* field list without a hidden or submit field, one field per visible      *)
(* control of the form its selector picked; a picked form whose controls   *)
(* are all hidden or submit gives no record, and the page that holds it is *)
(* processed to the end (its links are admitted) without an error.         *)
(***************************************************************************)
C11_FieldExclusion ==
    /\ \A i \in 1..Len(forms_found) :
          LET r == forms_found[i]
              hit == SelectOne(site[r.url], r.form_selector)
              visible == VisibleControls(site[r.url].forms[hit])
          IN  /\ r.fields # <<>>
              /\ \A k \in 1..Len(r.fields) : r.fields[k].type \notin {"hidden", "submit"}
              /\ hit # 0
              /\ Len(r.fields) = Len(visible)
              /\ \A k \in 1..Len(r.fields) : r.fields[k].type = TypeOf(visible[k])
    /\ \A u \in FetchedOk : \A f \in 1..Len(site[u].forms) :
          VisibleControls(site[u].forms[f]) = <<>> =>
             \A c \in 1..Len(FormConfigs) : \A n \in 1..Len(FormConfigs[c].selectors) :
                LET selector == FormConfigs[c].selectors[n]
                IN  SelectOne(site[u], selector) = f =>
                       /\ \A i \in 1..Len(forms_found) :
                             ~(forms_found[i].url = u
                               /\ forms_found[i].form_selector = selector)
                       /\ \A h \in LinksOf(u) :
                             (StartsWith(NormalizeUrl(h.full), base_url)
                              /\ ShouldCrawlUrl(h.full))
                                => NormalizeUrl(h.full) \in all_urls

\* a page whose contact form holds only hidden and submit controls was
\* processed and gave no record, while the contact form of another page gave
\* a record with its one visible field
C11_Witness ==
    /\ \E u \in FetchedOk :
          /\ site[u] = DocLeaf
          /\ \A i \in 1..Len(forms_found) : forms_found[i].url # u
          /\ NormalizeUrl(HrefC.full) \in all_urls
    /\ \E i \in 1..Len(forms_found) :
          /\ forms_found[i].form_type = "Contact Form"
          /\ Len(forms_found[i].fields) = 1
          /\ forms_found[i].fields[1].type = "textarea"

\* the case of a tag on a page: "absent", "empty" (no content, or blanks only)
\* or "filled"; the first tag of the name counts
TagCase(metas, name) ==
    LET hits == {i \in 1..Len(metas) : metas[i].name = name}
        first == CHOOSE i \in hits : \A j \in hits : i <= j
    IN  IF hits = {} THEN "absent"
        ELSE IF "content" \notin DOMAIN metas[first] THEN "empty"
        ELSE IF \A k \in 1..Len(metas[first].content) : metas[first].content[k] = " "
             THEN "empty"
        ELSE "filled"

\* the issue the spec attaches to a case of a tag
IssueOf(case, missing, empty) ==
    IF case = "absent" THEN <<missing>> ELSE IF case = "empty" THEN <<empty>> ELSE <<>>

(***************************************************************************)
(* C12.  Meta issue derivation: for description and for keywords, an       *)
(* absent tag gives flag false and "Missing meta <tag>", a tag with empty  *)
(* or blank content gives flag false and "Empty meta <tag>", a tag with    *)
(* content gives flag true and no issue; seo_issues holds the description  *)
(* issue, if any, then the keywords issue, if any.                         *)
(***************************************************************************)
C12_MetaIssueDerivation ==
    (arg.fn = "_extract_meta_info" /\ ret # <<>>) =>
        LET d == TagCase(arg.soup.metas, "description")
            k == TagCase(arg.soup.metas, "keywords")
        IN  /\ ret[1].has_meta_description = (d = "filled")
            /\ ret[1].has_meta_keywords = (k = "filled")
            /\ ret[1].seo_issues =
                   IssueOf(d, "Missing meta description", "Empty meta description")
                   \o IssueOf(k, "Missing meta keywords", "Empty meta keywords")

\* a document whose description is padded with blanks and whose keywords tag
\* holds blanks only was examined
C12_Witness ==
    /\ arg.fn = "_extract_meta_info"
    /\ ret # <<>>
    /\ arg.soup.metas = << Meta("description", <<" ", "crm", " ">>),
                           Meta("keywords", <<" ">>) >>
    /\ ret[1].seo_issues = << "Empty meta keywords" >>
    /\ ret[1].meta_description = <<"crm">>

(***************************************************************************)
(* C13.  Normalization is idempotent and canonical: normalizing the result *)
(* of _normalize_url again gives the same string, and two URLs that differ *)
(* only by a trailing slash, a doubled slash of the path, the letter case  *)
(* of the host, the query or the fragment normalize to the same string.    *)
(***************************************************************************)
C13_NormalizeIdempotentCanonical ==
    (arg.fn = "_normalize_url" /\ ret # <<>>) =>
        /\ ret[1].second = ret[1].first
        /\ ret[1].other = ret[1].first

(***************************************************************************)
(* C14.  Report rendering: once the crawl is done, if forms_found is not   *)
(* empty the file holds the header row and then one row per record of      *)
(* forms_found, in the order of forms_found; if forms_found is empty       *)
(* nothing is written, and the crawl is done all the same.                 *)
(***************************************************************************)
C14_ReportRendering ==
    /\ pc = "done" =>
          IF forms_found = <<>> THEN csv_file = <<>>
          ELSE /\ Len(csv_file) = Len(forms_found) + 1
               /\ Len(csv_file[1]) = 11
               /\ csv_file[1][1] = "Form ID"
               /\ \A i \in 1..Len(forms_found) :
                     /\ Len(csv_file[i + 1]) = 11
                     /\ csv_file[i + 1][1] = forms_found[i].form_id
                     /\ csv_file[i + 1][2] = forms_found[i].url
                     /\ csv_file[i + 1][3] = forms_found[i].form_selector
                     /\ csv_file[i + 1][6] = forms_found[i].form_type
                     /\ Len(csv_file[i + 1][5]) = Len(forms_found[i].fields)
    /\ pc # "done" => csv_file = <<>>

\* a crawl that gathered records of several pages and forms has written them
C14_Witness ==
    /\ pc = "done"
    /\ Len(csv_file) >= 4
    /\ csv_file[2][2] # csv_file[4][2]
    /\ csv_file[2][6] # csv_file[3][6]

\* the fetches of the current batch that have not returned
InFlight == (1..Len(current_batch)) \ done

(***************************************************************************)
(* C15.  Frontier and sink state change only after a batch has joined: a   *)
(* step that leaves a fetch of the current batch in flight changes none of *)
(* queue, all_urls, visited and forms_found.                               *)
(***************************************************************************)
C15_MutationOnlyAfterJoin ==
    [][ (pc = "gather" /\ (1..Len(current_batch)) \ done' # {}) =>
           UNCHANGED << queue, all_urls, visited, forms_found >> ]_vars

(***************************************************************************)
(* C16.  Bounded concurrency without overlap of batches: at most           *)
(* batch_size fetches are in flight, a batch is dispatched only when no    *)
(* fetch is in flight, and the report is saved only when no fetch is in    *)
(* flight.                                                                 *)
(***************************************************************************)
C16_BoundedConcurrency ==
    /\ [](Cardinality(InFlight) <= batch_size)
    /\ [][fetched' # fetched => InFlight = {}]_vars
    /\ [][saves' # saves => InFlight = {}]_vars

\* a full batch of two with one fetch returned and the other in flight, after
\* an earlier batch was joined
C16_Witness ==
    /\ pc = "gather"
    /\ batch_size = 2
    /\ Len(current_batch) = 2
    /\ Cardinality(InFlight) = 1
    /\ Len(fetched) = 3
    /\ queue # <<>>

\* the index of the first anchor of page p that is an admissible link to u,
\* 0 when p has none
LinkIndex(p, u) ==
    LET hits == {i \in 1..Len(site[p].anchors) :
                    /\ ~IsSkippedHref(site[p].anchors[i])
                    /\ NormalizeUrl(site[p].anchors[i].full) = u
                    /\ StartsWith(u, base_url)
                    /\ ShouldCrawlUrl(site[p].anchors[i].full)}
    IN  IF hits = {} THEN 0 ELSE CHOOSE i \in hits : \A j \in hits : i <= j

\* the position in completions of the page that admitted u: the first page
\* processed that links it
AdmittedAt(u) ==
    LET hits == {i \in 1..Len(completions) :
                    /\ site[completions[i]].status = 200
                    /\ LinkIndex(completions[i], u) # 0}
    IN  IF hits = {} THEN 0 ELSE CHOOSE i \in hits : \A j \in hits : i <= j

\* u was admitted to the frontier before v
AdmittedBefore(u, v) ==
    \/ AdmittedAt(u) < AdmittedAt(v)
    \/ /\ AdmittedAt(u) = AdmittedAt(v)
       /\ LinkIndex(completions[AdmittedAt(u)], u) < LinkIndex(completions[AdmittedAt(v)], v)

(***************************************************************************)
(* C17.  FIFO within a priority class: a batch is the first batch_size     *)
(* entries of the queue (all of it when it is shorter), removed from its   *)
(* front; and two fetched URLs of the same priority were dispatched in the *)
(* order of their admission, links of one page in document order.          *)
(***************************************************************************)
C17_FifoWithinPriorityClass ==
    /\ [][ fetched' # fetched =>
             /\ Len(current_batch') = (IF Len(queue) < batch_size THEN Len(queue)
                                       ELSE batch_size)
             /\ queue = current_batch' \o queue'
             /\ fetched' = fetched \o current_batch' ]_vars
    /\ [](\A u, v \in Range(fetched) \ {base_url} :
            (IsPriorityUrl(u) = IsPriorityUrl(v) /\ AdmittedBefore(u, v))
               => Pos(fetched, u) < Pos(fetched, v))

(***************************************************************************)
(* C18.  The page budget bounds the fetches: no more than max_pages URLs   *)
(* are ever dispatched for fetching (visited itself may grow past          *)
(* max_pages).                                                             *)
(***************************************************************************)
C18_PageBudgetBoundsFetches == Len(fetched) <= max_pages

\* the crawl stopped on the page budget after several fetches, with more
\* URLs in visited than max_pages
C18_Witness ==
    /\ pc = "done"
    /\ stop_state = "PageLimitReached"
    /\ Cardinality(visited) > max_pages
    /\ Len(fetched) >= 2
    /\ Len(fetched) = max_pages - 1

\* the URLs of the admissible links of the pages fetched with a 200 response
AdmissibleLinks ==
    {NormalizeUrl(h.full) : h \in
        {h \in UNION {LinksOf(page) : page \in FetchedOk} :
            StartsWith(NormalizeUrl(h.full), base_url) /\ ShouldCrawlUrl(h.full)}}

(***************************************************************************)
(* C19.  Frontier exhaustion means full coverage: when the crawl ends with *)
(* an empty queue, every URL of all_urls was dispatched exactly once and   *)
(* all_urls is the base URL plus every admissible link of a page fetched   *)
(* with a 200 response.                                                    *)
(***************************************************************************)
C19_ExhaustionIsFullCoverage ==
    (pc = "done" /\ queue = <<>>) =>
        /\ \A u \in all_urls : Count(fetched, u) = 1
        /\ Range(fetched) = all_urls
        /\ all_urls = {base_url} \cup AdmissibleLinks

\* a crawl of four pages, one of which failed, ran until the queue was empty
\* with neither budget reached
C19_Witness ==
    /\ pc = "done"
    /\ stop_state = "Completed"
    /\ Cardinality(visited) < max_pages
    /\ elapsed < timeout_minutes
    /\ Len(fetched) >= 4
    /\ FetchedFailed # {}

\* all_urls as it was when the current batch was dispatched: a URL admitted
\* since then is in the result of the fetch that admitted it
AllUrlsAtDispatch == all_urls \ UNION {Range(results[i]) : i \in 1..Len(results)}

\* one fetch of the run in which the fetches of the batch return in dispatch
\* order, on the same responses
ProcessInOrder(acc, url) ==
    IF site[url].status = 200
    THEN LET links == ExtractNewUrls(site[url].anchors, base_url, acc.all_urls)
         IN  [all_urls |-> links.all_urls, results |-> Append(acc.results, links.new_urls)]
    ELSE [all_urls |-> acc.all_urls, results |-> Append(acc.results, FailedResult(url))]

\* all_urls and the results of the batch in that run
InOrderRun ==
    ForEach(ProcessInOrder, [all_urls |-> AllUrlsAtDispatch, results |-> <<>>],
            current_batch, 1)

(***************************************************************************)
(* C20.  The frontier does not depend on the completion order: at every    *)
(* join, all_urls, visited and queue are what they are in the run on the   *)
(* same responses in which the fetches of each batch return in dispatch    *)
(* order.                                                                  *)
(***************************************************************************)
C20_FrontierIndependentOfCompletionOrder ==
    [][ (pc = "gather" /\ pc' = "loop") =>
           LET merged == MergeResults(InOrderRun.results, queue, visited)
           IN  /\ all_urls' = InOrderRun.all_urls
               /\ visited' = merged.visited
               /\ queue' = merged.queue ]_vars
====
